---- MODULE Spec2Model ----
(***************************************************************************)
(* Page-content extraction of the summarizer extension                     *)
(* (src/s4-mcp/gmail_mcp.md, function extractPageContent) and the click    *)
(* handler of its popup (src/unnamed/part_002).                            *)
(*                                                                         *)
(* Strings are sequences of one-character strings.  A document tree is a   *)
(* function from node ids (document order = numeric order) to node         *)
(* records; parent 0 is the body element.  A node's own text precedes its  *)
(* children.                                                               *)
(***************************************************************************)
EXTENDS Integers, Sequences, FiniteSets, TLC

(***************************************************************************)
(* Bounds of the model.                                                    *)
(***************************************************************************)
\* number of top-level blocks a document is built from
MaxBlocks == 2
\* number of text pieces an input of the clean-up chain is built from
MaxPieces == 4
\* number of clicks on the summarize button
MaxClicks == 3

(***************************************************************************)
(* Strings.                                                                *)
(***************************************************************************)
Rep(c, n) == [i \in 1..n |-> c]

\* JavaScript \s and String.prototype.trim white space (the part used here)
IsWs(c) == c \in {" ", "\n", "\t", "\r"}

SetMin(S) == CHOOSE x \in S : \A y \in S : x <= y

RECURSIVE SortedSeq(_)
\* the elements of a finite set of integers, ascending
SortedSeq(S) ==
  IF S = {} THEN <<>>
  ELSE LET m == SetMin(S) IN <<m>> \o SortedSeq(S \ {m})

RECURSIVE LeadingWs(_, _)
\* the number of white-space characters at the start of s, from position i on
LeadingWs(s, i) ==
  IF i <= Len(s) /\ IsWs(s[i]) THEN 1 + LeadingWs(s, i + 1) ELSE 0

RECURSIVE TrailingWs(_, _)
\* the number of white-space characters at the end of s, from position i down
TrailingWs(s, i) ==
  IF i >= 1 /\ IsWs(s[i]) THEN 1 + TrailingWs(s, i - 1) ELSE 0

\* String.prototype.trim
Trim(s) ==
  LET lead == LeadingWs(s, 1)
  IN IF lead = Len(s) THEN <<>>
     ELSE SubSeq(s, lead + 1, Len(s) - TrailingWs(s, Len(s)))

\* String.prototype.endsWith
EndsWith(s, suf) ==
  /\ Len(suf) <= Len(s)
  /\ SubSeq(s, Len(s) - Len(suf) + 1, Len(s)) = suf

\* String.prototype.includes
Includes(s, t) ==
  \E i \in 1..(Len(s) - Len(t) + 1) : \A k \in 1..Len(t) : s[i + k - 1] = t[k]

RECURSIVE Join(_, _)
\* Array.prototype.join
Join(ss, sep) ==
  IF Len(ss) = 0 THEN <<>>
  ELSE IF Len(ss) = 1 THEN ss[1]
  ELSE ss[1] \o sep \o Join(Tail(ss), sep)

(***************************************************************************)
(* The clean-up chain (gmail_mcp.md lines 218-224).                        *)
(***************************************************************************)
\* positions of s kept by a predicate on positions, as a string
KeepPositions(s, Keep(_)) ==
  LET idx == SelectSeq([i \in 1..Len(s) |-> i], Keep)
  IN [k \in 1..Len(idx) |-> s[idx[k]]]

\* .replace(/\s+/g, ' ')
CollapseWhitespace(s) ==
  LET kept == KeepPositions(s, LAMBDA i : ~(IsWs(s[i]) /\ i > 1 /\ IsWs(s[i - 1])))
  IN [k \in 1..Len(kept) |-> IF IsWs(kept[k]) THEN " " ELSE kept[k]]

\* .replace(/\n+/g, '\n')
CollapseNewlines(s) ==
  KeepPositions(s, LAMBDA i : ~(s[i] = "\n" /\ i > 1 /\ s[i - 1] = "\n"))

\* .replace(/\t+/g, ' ')
CollapseTabs(s) ==
  LET kept == KeepPositions(s, LAMBDA i : ~(s[i] = "\t" /\ i > 1 /\ s[i - 1] = "\t"))
  IN [k \in 1..Len(kept) |-> IF kept[k] = "\t" THEN " " ELSE kept[k]]

\* .replace(/\r+/g, '')
RemoveCarriageReturns(s) == SelectSeq(s, LAMBDA c : c # "\r")

\* the pattern of /Advertisement/gi, lower case
AdToken == <<"a", "d", "v", "e", "r", "t", "i", "s", "e", "m", "e", "n", "t">>

\* case folding of the i flag, on the letters of the pattern
Lower(c) ==
  CASE c = "A" -> "a" [] c = "D" -> "d" [] c = "V" -> "v" [] c = "E" -> "e"
    [] c = "R" -> "r" [] c = "T" -> "t" [] c = "I" -> "i" [] c = "S" -> "s"
    [] c = "M" -> "m" [] c = "N" -> "n" [] OTHER -> c

AdMatchAt(s, i) ==
  /\ i + Len(AdToken) - 1 <= Len(s)
  /\ \A k \in 1..Len(AdToken) : Lower(s[i + k - 1]) = AdToken[k]

RECURSIVE AdMatches(_, _, _)
\* start positions of the matches of a global replace, given the positions
\* where the pattern matches in ascending order: leftmost first, the scan
\* resumes after the end of each match
AdMatches(candidates, resume, acc) ==
  IF Len(candidates) = 0 THEN acc
  ELSE IF Head(candidates) >= resume
  THEN AdMatches(Tail(candidates), Head(candidates) + Len(AdToken),
                 acc \cup {Head(candidates)})
  ELSE AdMatches(Tail(candidates), resume, acc)

\* .replace(/Advertisement/gi, '')
RemoveAdvertisement(s) ==
  LET starts == AdMatches(SortedSeq({i \in 1..Len(s) : AdMatchAt(s, i)}), 1, {})
  IN KeepPositions(s, LAMBDA i : ~\E m \in starts : m <= i /\ i < m + Len(AdToken))

\* the steps of the chain, in source order
CleanUpSteps == <<"whitespace", "newlines", "tabs", "returns", "advertisement", "trim">>

CleanUpStep(name, s) ==
  CASE name = "whitespace" -> CollapseWhitespace(s)
    [] name = "newlines" -> CollapseNewlines(s)
    [] name = "tabs" -> CollapseTabs(s)
    [] name = "returns" -> RemoveCarriageReturns(s)
    [] name = "advertisement" -> RemoveAdvertisement(s)
    [] name = "trim" -> Trim(s)

RECURSIVE CleanUpFrom(_, _)
CleanUpFrom(k, s) ==
  IF k > Len(CleanUpSteps) THEN s
  ELSE CleanUpFrom(k + 1, CleanUpStep(CleanUpSteps[k], s))

\* content.replace(...).replace(...)....trim()
CleanUp(s) == CleanUpFrom(1, s)

(***************************************************************************)
(* Document trees.                                                         *)
(***************************************************************************)
\* an element: tag name, id, class list, attributes, own text, parent,
\* layout box (offsetWidth, offsetHeight, number of client rectangles),
\* length of its own tags in the serialized markup, link target
Node(tag, id, cls, attrs, text, parent, w, h, rects, markup, href) ==
  [tag |-> tag, id |-> id, cls |-> cls, attrs |-> attrs, text |-> text,
   parent |-> parent, offsetWidth |-> w, offsetHeight |-> h, rects |-> rects,
   markup |-> markup, href |-> href]

EmptyTree == <<>>

RECURSIVE Ancestors(_, _)
Ancestors(t, n) ==
  IF t[n].parent = 0 THEN {}
  ELSE {t[n].parent} \cup Ancestors(t, t[n].parent)

\* the descendants of an element; scope 0 is the body
Descendants(t, scope) ==
  IF scope = 0 THEN DOMAIN t
  ELSE {d \in DOMAIN t : scope \in Ancestors(t, d)}

Subtree(t, n) == {n} \cup Descendants(t, n)

\* element.children
Children(t, n) == {c \in DOMAIN t : t[c].parent = n}

RECURSIVE ConcatText(_, _)
ConcatText(t, ids) ==
  IF Len(ids) = 0 THEN <<>>
  ELSE t[Head(ids)].text \o ConcatText(t, Tail(ids))

\* element.textContent; n = 0 is the body
textContent(t, n) ==
  ConcatText(t, SortedSeq(IF n = 0 THEN DOMAIN t ELSE Subtree(t, n)))

RECURSIVE innerHTML(_, _)
RECURSIVE OuterHTMLs(_, _)
\* the serialization of a sequence of sibling elements
OuterHTMLs(t, cs) ==
  IF Len(cs) = 0 THEN <<>>
  ELSE Rep("<", t[Head(cs)].markup) \o innerHTML(t, Head(cs))
         \o Rep(">", t[Head(cs)].markup) \o OuterHTMLs(t, Tail(cs))

\* element.innerHTML
innerHTML(t, n) == t[n].text \o OuterHTMLs(t, SortedSeq(Children(t, n)))

\* isVisible (gmail_mcp.md lines 29-31)
isVisible(element) ==
  element.offsetWidth # 0 \/ element.offsetHeight # 0 \/ element.rects # 0

\* getTextToHtmlRatio (lines 34-38), as the fraction <<numerator, denominator>>
getTextToHtmlRatio(t, n) ==
  LET text == Trim(textContent(t, n))
      html == Trim(innerHTML(t, n))
  IN IF Len(html) > 0 THEN <<Len(text), Len(html)>> ELSE <<0, 1>>

\* comparison of two fractions with positive denominators
FracGreater(a, b) == a[1] * b[2] > b[1] * a[2]

(***************************************************************************)
(* Selectors.  A compound selector constrains tag, id, one class and one   *)
(* attribute ("" = unconstrained); a complex selector is a sequence of     *)
(* compound selectors joined by the descendant combinator; a selector list *)
(* is a sequence of complex selectors.                                     *)
(***************************************************************************)
Sel(tag, id, cls, attr) == [tag |-> tag, id |-> id, cls |-> cls, attr |-> attr]
Tag(tag) == <<Sel(tag, "", "", "")>>
Class(cls) == <<Sel("", "", cls, "")>>
Id(id) == <<Sel("", id, "", "")>>
Attr(attr) == <<Sel("", "", "", attr)>>
TagClass(tag, cls) == <<Sel(tag, "", cls, "")>>
Desc(anc, sel) == anc \o sel

MatchesCompound(node, s) ==
  /\ s.tag = "" \/ node.tag = s.tag
  /\ s.id = "" \/ node.id = s.id
  /\ s.cls = "" \/ s.cls \in node.cls
  /\ s.attr = "" \/ s.attr \in node.attrs

RECURSIVE MatchesFrom(_, _, _, _)
\* node n matches the first k compounds of the selector, n being the subject
MatchesFrom(t, n, sel, k) ==
  /\ MatchesCompound(t[n], sel[k])
  /\ \/ k = 1
     \/ \E a \in Ancestors(t, n) : MatchesFrom(t, a, sel, k - 1)

Matches(t, n, sel) == MatchesFrom(t, n, sel, Len(sel))

\* scope.querySelectorAll(list): matching descendants in document order
querySelectorAll(t, scope, list) ==
  SortedSeq({n \in Descendants(t, scope) :
               \E k \in 1..Len(list) : Matches(t, n, list[k])})

\* scope.querySelector(list): the first match, 0 for null
querySelector(t, scope, list) ==
  LET all == querySelectorAll(t, scope, list)
  IN IF Len(all) = 0 THEN 0 ELSE all[1]

\* line 49
articleLinkSelectors ==
  <<Desc(Tag("a"), Tag("h2")), Desc(Tag("h2"), Tag("a")),
    Desc(Tag("h3"), Tag("a")), Desc(Tag("a"), Tag("h3")),
    Desc(Class("headline"), Tag("a")), Desc(Tag("a"), Class("headline"))>>

\* lines 62-65
featuredArticleSelectors ==
  <<Class("featured-article"), Class("main-article"), Class("top-story"),
    Class("lead-story"), Class("headline-story"), Class("primary-article"),
    Attr("data-featured=true")>>

\* line 71
featuredTitleSelectors ==
  <<Tag("h1"), Tag("h2"), Class("title"), Class("headline")>>

\* lines 95-99
nonContentSelectors ==
  <<Tag("header"), Tag("footer"), Tag("nav"), Class("navigation"),
    Class("menu"), Class("sidebar"), Class("comments"),
    Class("related-articles"), Class("recommended"), Class("social-share"),
    Class("advertisement"), Class("nav"), Id("header"), Id("footer"),
    Id("nav"), Class("header"), Class("footer")>>

\* lines 115-119
titleSelectors ==
  <<TagClass("h1", "article-title"), TagClass("h1", "entry-title"),
    TagClass("h1", "headline"), TagClass("h1", "title"),
    Class("article-headline"), Class("article-title"), Class("story-title"),
    Class("entry-title"), Attr("itemprop=headline")>>

\* lines 133-142
contentSelectors ==
  <<Tag("article"), Class("article-body"), Class("story-content"),
    Class("entry-content"), Class("post-content"),
    Attr("itemprop=articleBody"), Class("story__content"),
    Class("article__content"), Class("content-body"),
    Class("story-article"), Class("article-text"), Class("news-content"),
    Class("main-content"), Id("articleBody"), Class("story-body__inner"),
    Class("article-container"), Class("article__body"), Class("story-body"),
    Class("Normal"), Class("article_content"), Id("content-body"),
    Class("main-content"), Class("article-txt")>>

(***************************************************************************)
(* Thresholds and literals of extractPageContent.                          *)
(***************************************************************************)
\* articleLinks.length > 5 (line 50)
HeadlineLinkLimit == 5
\* element.textContent.trim().length > 200 (line 151)
MinCandidateLength == 200
\* p.textContent.trim().length > 40 (line 177)
MinParagraphLength == 40
\* paragraphs.length > 3 (line 179)
MinParagraphs == 3
\* element.children.length > 2 (line 190)
MinBlockChildren == 2
\* text.length > 500 (line 192)
MinBlockLength == 500
\* score *= 1.5 (line 159), as a fraction
BoostFactor == <<3, 2>>

\* string literals, each kept as one symbol
FeaturedDescription ==
  <<"This appears to be a homepage or article listing page. The featured article is: ">>
GenericDescription ==
  <<"This appears to be a homepage or article listing page with multiple articles. Please navigate to a specific article to get a summary.">>
UnknownArticle == <<"Unknown Article">>

NoResult == [type |-> "none"]

(***************************************************************************)
(* isHomePage (lines 41-55).                                               *)
(***************************************************************************)
\* a classifier that counts five headline links as a listing
isHomePage_fromFive(url, t) ==
  IF \/ EndsWith(url, <<"/">>)
     \/ EndsWith(url, <<".", "c", "o", "m">>)
     \/ EndsWith(url, <<".", "o", "r", "g">>)
     \/ EndsWith(url, <<".", "n", "e", "t">>)
  THEN TRUE
  ELSE Len(querySelectorAll(t, 0, articleLinkSelectors)) >= HeadlineLinkLimit

isHomePage(url, t) ==
  IF \/ EndsWith(url, <<"/">>)
     \/ EndsWith(url, <<".", "c", "o", "m">>)
     \/ EndsWith(url, <<".", "o", "r", "g">>)
     \/ EndsWith(url, <<".", "n", "e", "t">>)
  THEN TRUE
  ELSE Len(querySelectorAll(t, 0, articleLinkSelectors)) > HeadlineLinkLimit

(***************************************************************************)
(* The homepage branch (lines 58-90).                                      *)
(***************************************************************************)
RECURSIVE FeaturedFrom(_, _)
\* the loop over featuredArticleSelectors from selector k on, then the
\* generic result
FeaturedFrom(t, k) ==
  IF k > Len(featuredArticleSelectors)
  THEN [type |-> "homepage", description |-> GenericDescription]
  ELSE LET featuredElement == querySelector(t, 0, <<featuredArticleSelectors[k]>>)
       IN IF featuredElement # 0 /\ isVisible(t[featuredElement])
          THEN LET titleElement ==
                     querySelector(t, featuredElement, featuredTitleSelectors)
                   linkElement == querySelector(t, featuredElement, <<Tag("a")>>)
               IN IF titleElement # 0 /\ linkElement # 0
                  THEN [type |-> "homepage",
                        title |-> Trim(textContent(t, titleElement)),
                        link |-> t[linkElement].href,
                        description |->
                          FeaturedDescription \o Trim(textContent(t, titleElement))]
                  ELSE FeaturedFrom(t, k + 1)
          ELSE FeaturedFrom(t, k + 1)

homepageResult(t) == FeaturedFrom(t, 1)

(***************************************************************************)
(* getMainContent (lines 93-212).                                          *)
(***************************************************************************)
\* a getMainContent that works on document.body itself
cloneNode_alias(handle) == handle

\* document.body.cloneNode(true): the handle of the new tree
cloneNode(handle) == "clone"

\* the nodes of a deep copy.  The copy is not attached to the document: a
\* browser reports no layout box for its elements, a host that keeps
\* visibility on the node reports the original's.
CopiedNodes(t, keepsLayout) ==
  IF keepsLayout THEN t
  ELSE [n \in DOMAIN t |->
          [t[n] EXCEPT !.offsetWidth = 0, !.offsetHeight = 0, !.rects = 0]]

\* element.parentNode.removeChild(element) (lines 108-110); an element that
\* left the tree with an ancestor is detached from that ancestor's subtree
removeChild(t, element) ==
  IF element \in DOMAIN t
  THEN LET gone == Subtree(t, element)
       IN [n \in DOMAIN t \ gone |-> t[n]]
  ELSE t

RECURSIVE RemoveElements(_, _)
RemoveElements(t, elements) ==
  IF Len(elements) = 0 THEN t
  ELSE RemoveElements(removeChild(t, Head(elements)), Tail(elements))

RECURSIVE RemoveNonContentFrom(_, _)
\* the loop over nonContentSelectors (lines 105-112) from selector k on
RemoveNonContentFrom(t, k) ==
  IF k > Len(nonContentSelectors) THEN t
  ELSE RemoveNonContentFrom(
         RemoveElements(t, querySelectorAll(t, 0, <<nonContentSelectors[k]>>)),
         k + 1)

\* a removal that looks at the children of the body only
removeNonContent_topLevel(t) ==
  RemoveElements(t,
    SortedSeq({n \in DOMAIN t :
                 /\ t[n].parent = 0
                 /\ \E k \in 1..Len(nonContentSelectors) :
                      Matches(t, n, nonContentSelectors[k])}))

removeNonContent(t) == RemoveNonContentFrom(t, 1)

RECURSIVE TitleFrom(_, _)
\* the loop over titleSelectors (lines 121-128) from selector k on
TitleFrom(t, k) ==
  IF k > Len(titleSelectors) THEN <<>>
  ELSE LET titleElement == querySelector(t, 0, <<titleSelectors[k]>>)
       IN IF titleElement # 0 /\ isVisible(t[titleElement])
          THEN Trim(textContent(t, titleElement))
          ELSE TitleFrom(t, k + 1)

locateTitle(t) == TitleFrom(t, 1)

RECURSIVE EncountersFrom(_, _)
\* the elements visited by the nested loops of lines 148-150, in order
EncountersFrom(t, k) ==
  IF k > Len(contentSelectors) THEN <<>>
  ELSE querySelectorAll(t, 0, <<contentSelectors[k]>>) \o EncountersFrom(t, k + 1)

Encounters(t) == EncountersFrom(t, 1)

\* the kind of the binding of score (const, line 155)
ScoreBinding == "const"

\* a floor that admits a text of exactly the floor length
Qualifies_atFloor(t, element) ==
  /\ isVisible(t[element])
  /\ Len(Trim(textContent(t, element))) >= MinCandidateLength

\* the condition of line 151
Qualifies(t, element) ==
  /\ isVisible(t[element])
  /\ Len(Trim(textContent(t, element))) > MinCandidateLength

\* lines 153-155: textLength * ratio
BaseScore(t, element) ==
  LET textLength == Len(Trim(textContent(t, element)))
      ratio == getTextToHtmlRatio(t, element)
  IN <<textLength * ratio[1], ratio[2]>>

\* the condition of line 158
ContainsTitle(t, element, articleTitle) ==
  articleTitle # <<>> /\ Includes(textContent(t, element), articleTitle)

\* a comparison that lets a later element replace an equal earlier one
Better_orEqual(score, best) == ~FracGreater(best, score)

\* score > bestScore (line 162)
Better(score, best) == FracGreater(score, best)

RECURSIVE ScoreFrom(_, _, _, _, _)
\* the scoring loop (lines 148-168) over the elements still to visit;
\* acc is [bestElement, bestScore, error, boosted]
ScoreFrom(t, articleTitle, elements, acc, binding) ==
  IF Len(elements) = 0 THEN acc
  ELSE LET element == Head(elements)
       IN IF Qualifies(t, element)
          THEN IF ContainsTitle(t, element, articleTitle)
               THEN IF binding = "const"
                    THEN \* score *= 1.5 on a const binding throws
                         [acc EXCEPT !.error = "TypeError"]
                    ELSE LET base == BaseScore(t, element)
                             score == <<base[1] * BoostFactor[1],
                                        base[2] * BoostFactor[2]>>
                         IN ScoreFrom(t, articleTitle, Tail(elements),
                              IF Better(score, acc.bestScore)
                              THEN [acc EXCEPT !.bestElement = element,
                                               !.bestScore = score,
                                               !.boosted = @ \cup {element}]
                              ELSE [acc EXCEPT !.boosted = @ \cup {element}],
                              binding)
               ELSE LET score == BaseScore(t, element)
                    IN ScoreFrom(t, articleTitle, Tail(elements),
                         IF Better(score, acc.bestScore)
                         THEN [acc EXCEPT !.bestElement = element,
                                          !.bestScore = score]
                         ELSE acc,
                         binding)
          ELSE ScoreFrom(t, articleTitle, Tail(elements), acc, binding)

\* lines 145-168: bestElement = null, bestScore = 0, then the loop
scoreCandidates(t, articleTitle) ==
  ScoreFrom(t, articleTitle, Encounters(t),
            [bestElement |-> 0, bestScore |-> <<0, 1>>, error |-> "none",
             boosted |-> {}],
            ScoreBinding)

\* lines 176-177
paragraphs(t) ==
  SelectSeq(querySelectorAll(t, 0, <<Tag("p")>>),
            LAMBDA p : isVisible(t[p])
                       /\ Len(Trim(textContent(t, p))) > MinParagraphLength)

\* lines 179-182: whether the stage returns, and the text it returns
paragraphCluster(t) ==
  LET ps == paragraphs(t)
  IN IF Len(ps) > MinParagraphs
     THEN [returns |-> TRUE,
           text |-> Join([k \in 1..Len(ps) |-> textContent(t, ps[k])],
                         <<"\n", "\n">>)]
     ELSE [returns |-> FALSE, text |-> <<>>]

\* a block test that accepts an element with 2 children
IsTextBlock_twoChildren(t, element) ==
  /\ isVisible(t[element])
  /\ Cardinality(Children(t, element)) >= MinBlockChildren
  /\ Len(Trim(textContent(t, element))) > MinBlockLength

\* lines 190-192: the elements the text-block stage scores
IsTextBlock(t, element) ==
  /\ isVisible(t[element])
  /\ Cardinality(Children(t, element)) > MinBlockChildren
  /\ Len(Trim(textContent(t, element))) > MinBlockLength

RECURSIVE BlockFrom(_, _, _)
\* the loop of lines 189-202; acc is [bestTextBlock, bestBlockScore]
BlockFrom(t, elements, acc) ==
  IF Len(elements) = 0 THEN acc
  ELSE LET element == Head(elements)
           text == Trim(textContent(t, element))
           ratio == getTextToHtmlRatio(t, element)
           score == <<Len(text) * ratio[1], ratio[2]>>
       IN IF /\ IsTextBlock(t, element)
             /\ FracGreater(score, acc.bestBlockScore)
          THEN BlockFrom(t, Tail(elements),
                 [bestTextBlock |-> text, bestBlockScore |-> score])
          ELSE BlockFrom(t, Tail(elements), acc)

\* lines 185-207: whether the stage returns, and the text it returns
bestTextBlock(t) ==
  LET found == BlockFrom(t,
                 querySelectorAll(t, 0, <<Tag("div"), Tag("section"), Tag("main")>>),
                 [bestTextBlock |-> <<>>, bestBlockScore |-> <<0, 1>>])
  IN [returns |-> found.bestTextBlock # <<>>, text |-> found.bestTextBlock]

\* line 211
bodyText(t) == textContent(t, 0)

\* the function that declares each local variable read at lines 231-235
DeclaredIn(name) ==
  CASE name = "articleTitle" -> "getMainContent"      \* line 121
    [] name = "content" -> "extractPageContent"       \* line 215

\* a name read in extractPageContent resolves only if it is declared there:
\* getMainContent is nested in it, so its locals are out of scope
ResolvesInExtract(name) == DeclaredIn(name) = "extractPageContent"

(***************************************************************************)
(* Input documents: a body built from at most MaxBlocks top-level blocks.  *)
(* A block is a sequence of nodes whose parents are positions in the block *)
(* (0 = the body).                                                         *)
(***************************************************************************)
\* an element with a layout box
Shown(tag, cls, text, parent) ==
  Node(tag, "", cls, {}, text, parent, 10, 0, 0, 0, "")
\* an element without layout box
Hidden(tag, cls, text, parent) ==
  Node(tag, "", cls, {}, text, parent, 0, 0, 0, 0, "")

HeadlineText == <<"H", "d">>

ParagraphLetters == <<"p", "q", "r", "s", "t", "u", "v">>

\* n sibling paragraphs; paragraph j is pre \o letter j (len times) \o post
Paras(n, pre, len, post) ==
  [j \in 1..n |-> [Shown("p", {}, pre \o Rep(ParagraphLetters[j], len) \o post, 0)
                     EXCEPT !.offsetWidth = 0, !.rects = 1]]

\* a link that wraps n headings
Links(n) ==
  <<Shown("a", {}, <<>>, 0)>> \o [j \in 1..n |-> Shown("h2", {}, <<"L">>, 1)]

\* a container with its own text and n empty children of the given markup
TextBlock(tag, text, markup, n) ==
  <<Shown(tag, {}, text, 0)>>
    \o [j \in 1..n |-> [Shown("span", {}, <<>>, 1) EXCEPT !.markup = markup]]

\* blocks about headlines and scored candidates
ScoringBlocks ==
  {"title", "titleHidden", "article201", "story201", "story250", "article200",
   "articleHidden", "bodyMarkup", "articleWithTitle", "navArticle"}

\* blocks about the fallback stages
FallbackBlocks ==
  {"paras5x50", "paras4x41", "paras4oneHidden", "paras4x40", "article201",
   "navParas", "block501"}

\* blocks about the text-block stage
TextBlocks ==
  {"block501", "blockTie", "blockDense", "blockSparse", "block500",
   "blockTwoChildren", "blockHidden"}

\* blocks about headlines
TitleBlocks ==
  {"title", "titleHidden", "titleHiddenThenShown", "storyTitle", "article201"}

\* blocks about non-content elements
NoiseBlocks ==
  {"navArticle", "nestedNoise", "noiseInNoise", "footerId", "article201",
   "title"}

\* blocks about listing pages
ListingBlocks ==
  {"links5", "links6", "featured", "featuredHidden", "featuredNoLink",
   "topStory", "paras4x41", "title"}

BlockNames ==
  ScoringBlocks \cup FallbackBlocks \cup TextBlocks \cup TitleBlocks
    \cup NoiseBlocks \cup ListingBlocks

Block(name) ==
  CASE name = "title" ->
         <<Shown("h1", {"article-title"}, <<" ">> \o HeadlineText \o <<" ">>, 0)>>
    [] name = "titleHidden" ->
         <<Hidden("h1", {"article-title"}, HeadlineText, 0)>>
    [] name = "titleHiddenThenShown" ->
         <<Hidden("h1", {"article-title"}, <<"N", "o">>, 0),
           Shown("h1", {"article-title"}, <<"Y", "e", "s", " ">>, 0)>>
    [] name = "storyTitle" -> <<Shown("h2", {"story-title"}, <<"S", "t">>, 0)>>
    [] name = "article201" ->
         <<Shown("article", {}, <<" ">> \o Rep("a", 201), 0)>>
    [] name = "story201" -> <<Shown("div", {"story-body"}, Rep("b", 201), 0)>>
    [] name = "story250" -> <<Shown("div", {"story-body"}, Rep("c", 250), 0)>>
    [] name = "article200" ->
         <<Shown("article", {}, <<" ", " ">> \o Rep("d", 200) \o <<"\n">>, 0)>>
    [] name = "articleHidden" -> <<Hidden("article", {}, Rep("f", 300), 0)>>
    [] name = "bodyMarkup" ->
         <<Shown("div", {"article-body"}, Rep("g", 300), 0),
           [Shown("span", {}, <<>>, 1) EXCEPT !.markup = 150]>>
    [] name = "articleWithTitle" ->
         <<[Shown("article", {}, Rep("h", 300), 0)
              EXCEPT !.offsetWidth = 0, !.offsetHeight = 7],
           Shown("h1", {"article-title"}, HeadlineText, 1)>>
    [] name = "navArticle" ->
         <<Shown("nav", {}, <<>>, 0), Shown("article", {}, Rep("n", 300), 1)>>
    [] name = "nestedNoise" ->
         <<Shown("article", {}, Rep("q", 201), 0),
           Shown("div", {"advertisement"}, <<"A", "d">>, 1),
           Shown("span", {}, <<"u">>, 2),
           Shown("p", {}, <<"v">>, 1)>>
    [] name = "noiseInNoise" ->
         <<Shown("div", {"menu", "wide"}, <<"M">>, 0),
           Shown("footer", {}, <<"F">>, 1),
           Shown("p", {}, <<"w">>, 2)>>
    [] name = "footerId" ->
         <<[Shown("div", {}, <<"f">>, 0) EXCEPT !.id = "footer"],
           Shown("p", {}, <<"x">>, 0)>>
    [] name = "paras5x50" -> Paras(5, <<>>, 50, <<>>)
    [] name = "paras4x41" -> Paras(4, <<" ">>, 41, <<"\n">>)
    [] name = "paras4oneHidden" ->
         [Paras(4, <<>>, 41, <<" ", " ">>) EXCEPT ![2].rects = 0]
    [] name = "paras4x40" -> Paras(4, <<" ">>, 40, <<>>)
    [] name = "navParas" ->
         <<Shown("div", {"sidebar"}, <<>>, 0)>>
           \o [j \in 1..4 |-> Shown("p", {}, Rep("w", 50), 1)]
    [] name = "block501" ->
         <<Shown("div", {}, <<"\t">> \o Rep("k", 501), 0)>>
           \o [j \in 1..3 |-> [Shown("span", {}, <<>>, 1) EXCEPT !.markup = 5]]
    [] name = "blockTie" -> TextBlock("section", Rep("m", 501), 5, 3)
    [] name = "blockDense" -> TextBlock("main", Rep("n", 510), 1, 3)
    [] name = "blockSparse" -> TextBlock("div", Rep("o", 520), 100, 3)
    [] name = "block500" -> TextBlock("div", Rep("e", 500) \o <<" ">>, 1, 3)
    [] name = "blockTwoChildren" -> TextBlock("section", Rep("i", 600), 1, 2)
    [] name = "blockHidden" ->
         [TextBlock("div", Rep("j", 600), 1, 3) EXCEPT ![1].offsetWidth = 0]
    [] name = "links5" -> Links(5)
    [] name = "links6" -> Links(6)
    [] name = "featured" ->
         <<Shown("div", {"featured-article"}, <<>>, 0),
           Shown("h2", {}, <<" ", "F", "h", " ">>, 1),
           [Shown("a", {}, <<"m">>, 1) EXCEPT !.href = "featured-link"]>>
    [] name = "featuredHidden" ->
         <<Hidden("div", {"featured-article"}, <<>>, 0),
           Shown("h2", {}, <<"F", "x">>, 1),
           [Shown("a", {}, <<"m">>, 1) EXCEPT !.href = "hidden-link"]>>
    [] name = "featuredNoLink" ->
         <<Shown("div", {"featured-article"}, <<>>, 0),
           Shown("h1", {}, <<"F", "n">>, 1)>>
    [] name = "topStory" ->
         <<Shown("section", {"top-story"}, <<>>, 0),
           [Shown("a", {}, <<>>, 1) EXCEPT !.href = "top-link"],
           Shown("span", {"headline"}, <<"T", "s", "\n">>, 2)>>

\* a block appended to a tree: its nodes follow the tree's in document order
AppendBlock(t, block) ==
  t \o [i \in 1..Len(block) |->
          [block[i] EXCEPT !.parent = IF @ = 0 THEN 0 ELSE @ + Len(t)]]

RECURSIVE BuildDocument(_)
BuildDocument(names) ==
  IF Len(names) = 0 THEN EmptyTree
  ELSE AppendBlock(BuildDocument(SubSeq(names, 1, Len(names) - 1)),
                   Block(names[Len(names)]))

\* the documents built from at most MaxBlocks blocks of a palette
Documents(palette) ==
  {BuildDocument(names) :
     names \in UNION {[1..k -> palette] : k \in 0..MaxBlocks}}

\* page addresses: ending in "/", a bare .org host, paths that end in .net
\* and .com, a bare host of another top-level domain, an article path
RootURL == <<"x", ".", "i", "o", "/">>
ArticleURL == <<"x", ".", "i", "o", "/", "a">>
URLs ==
  {RootURL, ArticleURL,
   <<"x", ".", "o", "r", "g">>,
   <<"x", ".", "i", "o", "/", "y", ".", "n", "e", "t">>,
   <<"x", ".", "i", "o", "/", "a", ".", "c", "o", "m">>,
   <<"x", ".", "i", "o">>}

\* inputs of the clean-up chain: concatenations of at most MaxPieces pieces
Pieces ==
  {<<" ">>, <<"\n">>, <<"\t">>, <<"\r">>, <<"x">>,
   <<"A", "d", "v", "e", "r", "t", "i", "s", "e", "m", "e", "n", "t">>,
   <<"A", "D", "V", "E", "R", "T", "I", "S", "E", "M", "E", "N", "T">>,
   <<"a", "d", "v", "e", "r", "t", "i", "s", "e", "m", "e", "n", "t", " ">>,
   <<"A", "d", "v", "e", "r", "t">>,
   <<"i", "s", "e", "m", "e", "n", "t">>}

RECURSIVE Flatten(_)
Flatten(ss) == IF Len(ss) = 0 THEN <<>> ELSE Head(ss) \o Flatten(Tail(ss))

CleanUpInputs ==
  {Flatten(ps) : ps \in UNION {[1..k -> Pieces] : k \in 0..MaxPieces}}

(***************************************************************************)
(* State.                                                                  *)
(***************************************************************************)
VARIABLES
  url,           \* window.location.href
  trees,         \* the trees in memory: orig = document.body, clone = the copy
  bodyClone,     \* the tree getMainContent works on (a handle into trees)
  pc,            \* position in extractPageContent
  homePage,      \* the value isHomePage returned
  articleTitle,  \* getMainContent's local
  bestElement,   \* getMainContent's local (0 = null)
  bestScore,     \* getMainContent's local, a fraction
  content,       \* the text getMainContent returned, then the cleaned text
  method,        \* the return statement of getMainContent that produced content
  result,        \* the value extractPageContent returned
  error,         \* the exception extractPageContent threw
  stages,        \* the blocks of extractPageContent executed so far, in order
  input,         \* clean-up chain on its own: the input string
  text,          \* clean-up chain on its own: the string so far
  step,          \* clean-up chain on its own: next step, 0 = idle, 7 = finished
  pass,          \* clean-up chain on its own: first or second application
  firstPass,     \* clean-up chain on its own: the result of the first application
  hidden,        \* popup: the elements whose class list contains 'hidden'
  summaryText,   \* popup: summaryText.textContent
  errorMessage,  \* popup: errorMessage.textContent
  clicks,        \* popup: the number of clicks on the summarize button so far
  handler,       \* popup: the await each click's handler is suspended at
  message,       \* popup: each handler's local summary or error.message
  contentData,   \* generateSummary: its argument
  storage,       \* generateSummary: the value stored under openaiApiKey
  summaryPc,     \* generateSummary: the await it is suspended at
  storageReads,  \* generateSummary: the calls of chrome.storage.sync.get made
  requests,      \* generateSummary: the calls of fetch made, in order
  apiKey,        \* generateSummary: the local apiKey
  response,      \* generateSummary: the local response
  settled        \* generateSummary: how the returned promise settled

extractVars ==
  <<url, trees, bodyClone, pc, homePage, articleTitle, bestElement, bestScore,
    content, method, result, error, stages>>
cleanUpVars == <<input, text, step, pass, firstPass>>
popupVars == <<hidden, summaryText, errorMessage, clicks, handler, message>>
summaryVars ==
  <<contentData, storage, summaryPc, storageReads, requests, apiKey, response,
    settled>>
vars == <<extractVars, cleanUpVars, popupVars, summaryVars>>

ExtractIdle ==
  /\ bodyClone = "none"
  /\ homePage = FALSE
  /\ articleTitle = <<>>
  /\ bestElement = 0
  /\ bestScore = <<0, 1>>
  /\ content = <<>>
  /\ method = "none"
  /\ result = NoResult
  /\ error = "none"
  /\ stages = <<>>

CleanUpIdle ==
  /\ input = <<>>
  /\ text = <<>>
  /\ step = 0
  /\ pass = 1
  /\ firstPass = <<>>

\* the text of an element nothing has been written to
NoText == "none"

\* the popup is not open
PopupIdle ==
  /\ hidden = {"summaryContainer", "errorContainer", "loadingElement"}
  /\ summaryText = NoText
  /\ errorMessage = NoText
  /\ clicks = 0
  /\ handler = [h \in 1..MaxClicks |-> "idle"]
  /\ message = [h \in 1..MaxClicks |-> NoText]

\* a promise that has not settled, a response that has not arrived
Pending == [state |-> "pending"]

\* generateSummary has not been called
SummaryIdle ==
  /\ contentData = NoResult
  /\ storage = "undefined"
  /\ summaryPc = "idle"
  /\ storageReads = 0
  /\ requests = <<>>
  /\ apiKey = "unread"
  /\ response = Pending
  /\ settled = Pending

\* extractPageContent is about to run on some document at some address
InitOn(urls, palette) ==
  /\ url \in urls
  /\ \E d \in Documents(palette) : trees = [orig |-> d, clone |-> EmptyTree]
  /\ pc = "start"
  /\ ExtractIdle
  /\ CleanUpIdle
  /\ PopupIdle
  /\ SummaryIdle

Init == InitOn(URLs, BlockNames)
InitListing == InitOn(URLs, ListingBlocks)
InitScoring == InitOn({RootURL, ArticleURL}, ScoringBlocks)
InitFallback == InitOn({RootURL, ArticleURL}, FallbackBlocks)
InitBlock == InitOn({RootURL, ArticleURL}, TextBlocks)
InitTitle == InitOn({RootURL, ArticleURL}, TitleBlocks)
InitStrip == InitOn({RootURL, ArticleURL}, NoiseBlocks)

(***************************************************************************)
(* extractPageContent, block by block.                                     *)
(***************************************************************************)
\* a homepage branch that does not return
AfterClassify_fallThrough(isHome) == "getMainContent"

\* line 58: if (isHomePage()) { ... return } else fall through to line 215
AfterClassify(isHome) == IF isHome THEN "homepage" ELSE "getMainContent"

\* a chain that tries the text block before the paragraphs
AfterScore_blockFirst(best) == IF best # 0 THEN "cleanup" ELSE "block"

\* lines 170-173: if (bestElement) return, else the paragraph stage
AfterScore(best) == IF best # 0 THEN "cleanup" ELSE "paragraphs"

\* lines 179-182: return, else the text-block stage
AfterParagraphs(returns) == IF returns THEN "cleanup" ELSE "block"

\* lines 204-207: return, else the body text
AfterBlock(returns) == IF returns THEN "cleanup" ELSE "body"

\* line 58, the call of isHomePage
Classify ==
  /\ pc = "start"
  /\ homePage' = isHomePage(url, trees.orig)
  /\ pc' = AfterClassify(homePage')
  /\ stages' = Append(stages, "isHomePage")
  /\ UNCHANGED <<url, trees, bodyClone, articleTitle, bestElement, bestScore,
                 content, method, result, error, cleanUpVars, popupVars, summaryVars>>

\* lines 59-89
HomepageResult ==
  /\ pc = "homepage"
  /\ result' = homepageResult(trees.orig)
  /\ pc' = "done"
  /\ stages' = Append(stages, "homepage")
  /\ UNCHANGED <<url, trees, bodyClone, homePage, articleTitle, bestElement,
                 bestScore, content, method, error, cleanUpVars, popupVars, summaryVars>>

\* lines 102-112: clone the body, remove the non-content elements
StripNoise ==
  /\ pc = "getMainContent"
  /\ \E keepsLayout \in BOOLEAN :
       LET target == cloneNode("orig")
           copied == [trees EXCEPT ![target] = CopiedNodes(trees.orig, keepsLayout)]
       IN /\ bodyClone' = target
          /\ trees' = [copied EXCEPT ![target] = removeNonContent(copied[target])]
  /\ pc' = "title"
  /\ stages' = Append(stages, "strip")
  /\ UNCHANGED <<url, homePage, articleTitle, bestElement, bestScore, content,
                 method, result, error, cleanUpVars, popupVars, summaryVars>>

\* lines 115-128
LocateTitle ==
  /\ pc = "title"
  /\ articleTitle' = locateTitle(trees[bodyClone])
  /\ pc' = "score"
  /\ stages' = Append(stages, "title")
  /\ UNCHANGED <<url, trees, bodyClone, homePage, bestElement, bestScore,
                 content, method, result, error, cleanUpVars, popupVars, summaryVars>>

\* lines 145-173
ScoreCandidates ==
  /\ pc = "score"
  /\ stages' = Append(stages, "score")
  /\ LET found == scoreCandidates(trees[bodyClone], articleTitle)
     IN IF found.error # "none"
        THEN /\ error' = found.error
             /\ pc' = "threw"
             /\ UNCHANGED <<bestElement, bestScore, content, method>>
        ELSE /\ bestElement' = found.bestElement
             /\ bestScore' = found.bestScore
             /\ pc' = AfterScore(found.bestElement)
             /\ IF AfterScore(found.bestElement) = "cleanup"
                THEN /\ content' = textContent(trees[bodyClone], found.bestElement)
                     /\ method' = "selector"
                ELSE UNCHANGED <<content, method>>
             /\ UNCHANGED error
  /\ UNCHANGED <<url, trees, bodyClone, homePage, articleTitle, result, cleanUpVars, popupVars, summaryVars>>

\* lines 176-182
ParagraphCluster ==
  /\ pc = "paragraphs"
  /\ stages' = Append(stages, "paragraphs")
  /\ LET found == paragraphCluster(trees[bodyClone])
     IN /\ pc' = AfterParagraphs(found.returns)
        /\ IF AfterParagraphs(found.returns) = "cleanup"
           THEN content' = found.text /\ method' = "paragraphs"
           ELSE UNCHANGED <<content, method>>
  /\ UNCHANGED <<url, trees, bodyClone, homePage, articleTitle, bestElement,
                 bestScore, result, error, cleanUpVars, popupVars, summaryVars>>

\* lines 185-207
BestTextBlock ==
  /\ pc = "block"
  /\ stages' = Append(stages, "block")
  /\ LET found == bestTextBlock(trees[bodyClone])
     IN /\ pc' = AfterBlock(found.returns)
        /\ IF AfterBlock(found.returns) = "cleanup"
           THEN content' = found.text /\ method' = "block"
           ELSE UNCHANGED <<content, method>>
  /\ UNCHANGED <<url, trees, bodyClone, homePage, articleTitle, bestElement,
                 bestScore, result, error, cleanUpVars, popupVars, summaryVars>>

\* lines 210-211
BodyFallback ==
  /\ pc = "body"
  /\ stages' = Append(stages, "body")
  /\ content' = bodyText(trees[bodyClone])
  /\ method' = "body"
  /\ pc' = "cleanup"
  /\ UNCHANGED <<url, trees, bodyClone, homePage, articleTitle, bestElement,
                 bestScore, result, error, cleanUpVars, popupVars, summaryVars>>

\* lines 218-224
CleanUpContent ==
  /\ pc = "cleanup"
  /\ stages' = Append(stages, "cleanup")
  /\ content' = CleanUp(content)
  /\ pc' = "result"
  /\ UNCHANGED <<url, trees, bodyClone, homePage, articleTitle, bestElement,
                 bestScore, method, result, error, cleanUpVars, popupVars, summaryVars>>

\* lines 231-235: the object literal reads articleTitle and content
BuildResult ==
  /\ pc = "result"
  /\ stages' = Append(stages, "result")
  /\ IF ResolvesInExtract("articleTitle") /\ ResolvesInExtract("content")
     THEN /\ result' = [type |-> "article",
                        title |-> IF articleTitle # <<>> THEN articleTitle
                                  ELSE UnknownArticle,
                        content |-> content]
          /\ pc' = "done"
          /\ UNCHANGED error
     ELSE /\ error' = "ReferenceError"
          /\ pc' = "threw"
          /\ UNCHANGED result
  /\ UNCHANGED <<url, trees, bodyClone, homePage, articleTitle, bestElement,
                 bestScore, content, method, cleanUpVars, popupVars, summaryVars>>

Next ==
  \/ Classify
  \/ HomepageResult
  \/ StripNoise
  \/ LocateTitle
  \/ ScoreCandidates
  \/ ParagraphCluster
  \/ BestTextBlock
  \/ BodyFallback
  \/ CleanUpContent
  \/ BuildResult

Spec == Init /\ [][Next]_vars
\* the same program on listing pages, on pages with scored candidates and
\* on pages that need the fallback stages
SpecListing == InitListing /\ [][Next]_vars
SpecScoring == InitScoring /\ [][Next]_vars
SpecFallback == InitFallback /\ [][Next]_vars
\* the same program on pages of generic containers
SpecBlock == InitBlock /\ [][Next]_vars
\* the same program on pages with headlines
SpecTitle == InitTitle /\ [][Next]_vars
\* the same program on pages with non-content elements
SpecStrip == InitStrip /\ [][Next]_vars

(***************************************************************************)
(* The clean-up chain on its own: applied to an input, then to its own     *)
(* output.                                                                 *)
(***************************************************************************)
InitCleanUp ==
  /\ url = <<>>
  /\ trees = [orig |-> EmptyTree, clone |-> EmptyTree]
  /\ pc = "idle"
  /\ ExtractIdle
  /\ input \in CleanUpInputs
  /\ text = input
  /\ step = 1
  /\ pass = 1
  /\ firstPass = <<>>
  /\ PopupIdle
  /\ SummaryIdle

\* one step of the chain; after the last step of the first application the
\* chain is applied to its own output
ChainStep(name) ==
  /\ step \in 1..Len(CleanUpSteps)
  /\ CleanUpSteps[step] = name
  /\ LET out == CleanUpStep(name, text)
     IN /\ text' = out
        /\ IF step < Len(CleanUpSteps)
           THEN step' = step + 1 /\ UNCHANGED <<pass, firstPass>>
           ELSE IF pass = 1
                THEN step' = 1 /\ pass' = 2 /\ firstPass' = out
                ELSE step' = Len(CleanUpSteps) + 1 /\ UNCHANGED <<pass, firstPass>>
  /\ UNCHANGED <<input, extractVars, popupVars, summaryVars>>

StepWhitespace == ChainStep("whitespace")
StepNewlines == ChainStep("newlines")
StepTabs == ChainStep("tabs")
StepReturns == ChainStep("returns")
StepAdvertisement == ChainStep("advertisement")
StepTrim == ChainStep("trim")

NextCleanUp ==
  \/ StepWhitespace
  \/ StepNewlines
  \/ StepTabs
  \/ StepReturns
  \/ StepAdvertisement
  \/ StepTrim

SpecCleanUp == InitCleanUp /\ [][NextCleanUp]_vars

(***************************************************************************)
(* The popup (src/unnamed/part_002 lines 1-43).  Each click starts a       *)
(* handler; a handler runs to its next await without interruption, and the *)
(* awaited operations of different handlers complete in any order.         *)
(***************************************************************************)
\* element.classList.add('hidden') and element.classList.remove('hidden')
classListAdd(elements, element) == elements \cup {element}
classListRemove(elements, element) == elements \ {element}

\* the handler of click h is suspended at an await
InFlight(h) == handler[h] \in {"tabs.query", "executeScript", "generateSummary"}

\* what chrome.tabs.query resolves to: an active tab or none
Tabs == {"tab", "undefined"}

\* what chrome.scripting.executeScript settles to: a rejection, or the
\* string the injected function returned (empty, blank, text)
ScriptResults ==
  {[rejected |-> TRUE, pageContent |-> <<>>]}
    \cup {[rejected |-> FALSE, pageContent |-> c] :
            c \in {<<>>, <<" ", "\n">>, <<"a", " ">>}}

\* what generateSummary resolves to (lines 53, 92, 95)
Summaries == {"summary", "Please set your OpenAI API key", "Error generating summary"}

\* the popup has just been opened; the class lists come from the page
InitPopup ==
  /\ url = <<>>
  /\ trees = [orig |-> EmptyTree, clone |-> EmptyTree]
  /\ pc = "idle"
  /\ ExtractIdle
  /\ CleanUpIdle
  /\ hidden \in SUBSET {"summaryContainer", "errorContainer", "loadingElement"}
  /\ summaryText = NoText
  /\ errorMessage = NoText
  /\ clicks = 0
  /\ handler = [h \in 1..MaxClicks |-> "idle"]
  /\ message = [h \in 1..MaxClicks |-> NoText]
  /\ SummaryIdle

\* lines 9-17: the click event, up to the first await
Click ==
  /\ clicks < MaxClicks
  /\ clicks' = clicks + 1
  /\ hidden' = classListRemove(
                 classListAdd(classListAdd(hidden, "summaryContainer"),
                              "errorContainer"),
                 "loadingElement")
  /\ handler' = [handler EXCEPT ![clicks + 1] = "tabs.query"]
  /\ UNCHANGED <<summaryText, errorMessage, message, extractVars, cleanUpVars, summaryVars>>

\* lines 37-42: the catch block and the finally block
Caught(h, thrown) ==
  /\ message' = [message EXCEPT ![h] = thrown]
  /\ errorMessage' = thrown
  /\ hidden' = classListAdd(classListRemove(hidden, "errorContainer"),
                            "loadingElement")
  /\ handler' = [handler EXCEPT ![h] = "failed"]
  /\ UNCHANGED <<summaryText, clicks, extractVars, cleanUpVars, summaryVars>>

\* lines 17-20: tabs.query settles; without a tab, tab.id throws
TabsQuerySettles(h) ==
  /\ handler[h] = "tabs.query"
  /\ \E tab \in Tabs :
       IF tab = "tab"
       THEN /\ handler' = [handler EXCEPT ![h] = "executeScript"]
            /\ UNCHANGED <<hidden, summaryText, errorMessage, clicks, message,
                           extractVars, cleanUpVars, summaryVars>>
       ELSE Caught(h, "TypeError")

\* lines 20-32: executeScript settles; no content throws (line 28)
ExecuteScriptSettles(h) ==
  /\ handler[h] = "executeScript"
  /\ \E injection \in ScriptResults :
       IF injection.rejected THEN Caught(h, "executeScript")
       ELSE IF injection.pageContent = <<>> \/ Trim(injection.pageContent) = <<>>
       THEN Caught(h, "Could not extract content from this page.")
       ELSE /\ handler' = [handler EXCEPT ![h] = "generateSummary"]
            /\ UNCHANGED <<hidden, summaryText, errorMessage, clicks, message,
                           extractVars, cleanUpVars, summaryVars>>

\* lines 32-36 and 40-42: generateSummary resolves, the summary is shown
GenerateSummarySettles(h) ==
  /\ handler[h] = "generateSummary"
  /\ \E summary \in Summaries :
       /\ message' = [message EXCEPT ![h] = summary]
       /\ summaryText' = summary
  /\ hidden' = classListAdd(classListRemove(hidden, "summaryContainer"),
                            "loadingElement")
  /\ handler' = [handler EXCEPT ![h] = "displayed"]
  /\ UNCHANGED <<errorMessage, clicks, extractVars, cleanUpVars, summaryVars>>

NextPopup ==
  \/ Click
  \/ \E h \in 1..MaxClicks : TabsQuerySettles(h)
  \/ \E h \in 1..MaxClicks : ExecuteScriptSettles(h)
  \/ \E h \in 1..MaxClicks : GenerateSummarySettles(h)

SpecPopup == InitPopup /\ [][NextPopup]_vars

(***************************************************************************)
(* generateSummary (src/s4-mcp/gmail_mcp.md lines 238-295).  The function  *)
(* runs to its next await without interruption; an awaited operation       *)
(* resolves or rejects.                                                    *)
(***************************************************************************)
\* line 255
maxInputLength == 4000

Ellipsis == <<".", ".", ".">>

\* a truncation that also cuts a content of exactly maxInputLength characters
truncatedContent_atLimit(c) ==
  IF Len(c) >= maxInputLength
  THEN SubSeq(c, 1, maxInputLength) \o Ellipsis
  ELSE c

\* lines 256-258
truncatedContent(c) ==
  IF Len(c) > maxInputLength
  THEN SubSeq(c, 1, maxInputLength) \o Ellipsis
  ELSE c

\* the literals of lines 250, 282 and 292, each as one symbol
SetKeyMessage == <<"Please set your OpenAI API key in the extension options.">>
ErrorPrefix == <<"Error generating summary: ">>
ErrorSuffix == <<". Please try again later.">>
ApiErrorPrefix == <<"API error: ">>
UnknownError == <<"Unknown error">>

\* a fulfilled promise
Resolved(value) == [state |-> "resolved", value |-> value]

\* a content of n characters; the characters at and after the limit differ
\* from those before it
Marked(n) ==
  [i \in 1..n |-> IF i < maxInputLength THEN "a"
                  ELSE IF i = maxInputLength THEN "e" ELSE "x"]

ContentLengths ==
  {0, 1, maxInputLength - 1, maxInputLength, maxInputLength + 1,
   maxInputLength + 3, maxInputLength + 10}

\* the arguments: the two listing results, article results, an article
\* result without content, and null (type "null")
SummaryInputs ==
  {[type |-> "homepage", description |-> GenericDescription],
   [type |-> "homepage", title |-> <<"F", "h">>, link |-> "featured-link",
    description |-> FeaturedDescription \o <<"F", "h">>],
   [type |-> "null"],
   [type |-> "article", title |-> UnknownArticle]}
    \cup {[type |-> "article", title |-> HeadlineText, content |-> Marked(n)] :
            n \in ContentLengths}

\* what chrome.storage.sync holds under openaiApiKey
StoredKeys == {"undefined", "", "sk"}

InitSummary ==
  /\ url = <<>>
  /\ trees = [orig |-> EmptyTree, clone |-> EmptyTree]
  /\ pc = "idle"
  /\ ExtractIdle
  /\ CleanUpIdle
  /\ PopupIdle
  /\ contentData \in SummaryInputs
  /\ storage \in StoredKeys
  /\ summaryPc = "start"
  /\ storageReads = 0
  /\ requests = <<>>
  /\ apiKey = "unread"
  /\ response = Pending
  /\ settled = Pending

\* lines 289-292: the catch block; every value thrown in the try block is an
\* Error with a message
CatchError(thrown) ==
  /\ settled' = Resolved(ErrorPrefix \o thrown \o ErrorSuffix)
  /\ summaryPc' = "returned"

\* lines 239-246: from the call to the first await
CallGenerateSummary ==
  /\ summaryPc = "start"
  /\ IF contentData.type = "null"
     THEN CatchError(<<"TypeError">>) /\ UNCHANGED storageReads
     ELSE IF contentData.type = "homepage"
     THEN /\ settled' = Resolved(contentData.description)
          /\ summaryPc' = "returned"
          /\ UNCHANGED storageReads
     ELSE /\ storageReads' = storageReads + 1
          /\ summaryPc' = "storage.get"
          /\ UNCHANGED settled
  /\ UNCHANGED <<contentData, storage, requests, apiKey, response, extractVars,
                 cleanUpVars, popupVars>>

\* lines 246-257: storage.get settles; without a key the function returns,
\* with a key it calls fetch
StorageGetSettles ==
  /\ summaryPc = "storage.get"
  /\ \E rejects \in BOOLEAN :
       IF rejects
       THEN CatchError(<<"storage">>) /\ UNCHANGED <<apiKey, requests>>
       ELSE /\ apiKey' = storage
            /\ IF storage \in {"undefined", ""}
               THEN /\ settled' = Resolved(SetKeyMessage)
                    /\ summaryPc' = "returned"
                    /\ UNCHANGED requests
               ELSE IF "content" \notin DOMAIN contentData
               THEN CatchError(<<"TypeError">>) /\ UNCHANGED requests
               ELSE /\ requests' =
                         Append(requests,
                           [authorization |-> storage,
                            title |-> contentData.title,
                            content |-> truncatedContent(contentData.content)])
                    /\ summaryPc' = "fetch"
                    /\ UNCHANGED settled
  /\ UNCHANGED <<contentData, storage, storageReads, response, extractVars,
                 cleanUpVars, popupVars>>

\* lines 257-285: fetch settles
FetchSettles ==
  /\ summaryPc = "fetch"
  /\ \E outcome \in {"rejects", "ok", "notOk"} :
       IF outcome = "rejects"
       THEN CatchError(<<"Failed to fetch">>) /\ UNCHANGED response
       ELSE /\ response' = [state |-> "arrived", ok |-> outcome = "ok"]
            /\ summaryPc' = IF outcome = "ok" THEN "response.json" ELSE "errorData"
            /\ UNCHANGED settled
  /\ UNCHANGED <<contentData, storage, storageReads, requests, apiKey,
                 extractVars, cleanUpVars, popupVars>>

\* lines 280-283: the body of a response that is not ok settles, the
\* function throws
ErrorDataSettles ==
  /\ summaryPc = "errorData"
  /\ \E errorData \in {"rejects", "message", "no message"} :
       CASE errorData = "rejects" -> CatchError(<<"SyntaxError">>)
         [] errorData = "message" -> CatchError(ApiErrorPrefix \o <<"quota">>)
         [] errorData = "no message" -> CatchError(ApiErrorPrefix \o UnknownError)
  /\ UNCHANGED <<contentData, storage, storageReads, requests, apiKey, response,
                 extractVars, cleanUpVars, popupVars>>

\* lines 285-286: the body of an ok response settles
ResponseJsonSettles ==
  /\ summaryPc = "response.json"
  /\ \E data \in {"rejects", "no choices", "choices"} :
       CASE data = "rejects" -> CatchError(<<"SyntaxError">>)
         [] data = "no choices" -> CatchError(<<"TypeError">>)
         [] data = "choices" ->
              /\ settled' = Resolved(Trim(<<" ", "S", "u", "m", "\n">>))
              /\ summaryPc' = "returned"
  /\ UNCHANGED <<contentData, storage, storageReads, requests, apiKey, response,
                 extractVars, cleanUpVars, popupVars>>

NextSummary ==
  \/ CallGenerateSummary
  \/ StorageGetSettles
  \/ FetchSettles
  \/ ErrorDataSettles
  \/ ResponseJsonSettles

SpecSummary == InitSummary /\ [][NextSummary]_vars

(***************************************************************************)
(* Properties.                                                             *)
(***************************************************************************)
\* the block of extractPageContent named x has been executed
Ran(x) == \E i \in 1..Len(stages) : stages[i] = x

\* extractPageContent has returned or thrown
Ended == pc \in {"done", "threw"}

\* the working tree of getMainContent
WorkingTree == trees[bodyClone]

\* C1: for every document and address extractPageContent runs to completion
\* without raising and returns exactly one variant: a listing result or an
\* article result with title and content.
C1_NeverRaises ==
  /\ pc # "threw"
  /\ error = "none"
  /\ pc = "done" =>
       \/ result.type = "homepage" /\ ~Ran("result")
       \/ /\ result.type = "article"
          /\ DOMAIN result = {"type", "title", "content"}

\* C2: whenever isHomePage returns true the call returns a listing result and
\* none of the noise-stripping, title, scoring, fallback and clean-up blocks
\* is executed.
C2_ListingPrecedence ==
  (pc # "start" /\ isHomePage(url, trees.orig)) =>
    /\ homePage
    /\ pc \in {"homepage", "done"}
    /\ \A i \in 1..Len(stages) : stages[i] \in {"isHomePage", "homepage"}
    /\ bodyClone = "none" /\ trees.clone = EmptyTree
    /\ articleTitle = <<>> /\ bestElement = 0 /\ content = <<>> /\ method = "none"
    /\ pc = "done" => result.type = "homepage"

\* a listing result was returned for a page that has paragraphs enough for
\* the paragraph stage
C2_Witness ==
  /\ pc = "done"
  /\ result.type = "homepage"
  /\ paragraphCluster(trees.orig).returns

\* C3: the clean-up chain applied to its own output gives the same string as
\* applied once.
C3_Idempotent ==
  (step = Len(CleanUpSteps) + 1 /\ pass = 2) => text = firstPass

\* the score the boost rule gives an element: 1.5 times the base score if the
\* located title is non-empty and part of its text, the base score otherwise
RuleScore(t, element, title) ==
  LET base == BaseScore(t, element)
  IN IF title # <<>> /\ Includes(textContent(t, element), title)
     THEN <<3 * base[1], 2 * base[2]>>
     ELSE base

FracEqual(a, b) == a[1] * b[2] = b[1] * a[2]

\* the page of scenario B: one visible container of 300 characters that
\* matches a content selector and contains the headline
ScenarioB == BuildDocument(<<"articleWithTitle">>)

\* C4: a candidate's score is 1.5 times the base score exactly if the located
\* title is non-empty and part of its text; on the page of scenario B the
\* result is an article whose content is the container's cleaned text.
C4_TitleBoost ==
  /\ Ran("score") =>
       /\ error # "TypeError"
       /\ bestElement # 0 =>
            FracEqual(bestScore, RuleScore(WorkingTree, bestElement, articleTitle))
  /\ (Ended /\ ~homePage /\ trees.orig = ScenarioB) =>
       /\ result.type = "article"
       /\ result.content = CleanUp(textContent(trees.orig, 1))

\* C5: no step of an extraction changes the original tree; removals act on
\* the clone.
C5_OriginalUntouched == [][trees'.orig = trees.orig]_vars

\* noise was removed from the working tree, which therefore differs from the
\* original
C5_Witness ==
  /\ Ran("strip")
  /\ bodyClone = "clone"
  /\ DOMAIN trees.clone # DOMAIN trees.orig
  /\ \E n \in DOMAIN trees.orig : trees.orig[n].tag = "nav"

\* the first content selector an element matches, 0 if none
FirstSelector(t, n) ==
  LET ks == {k \in 1..Len(contentSelectors) : Matches(t, n, contentSelectors[k])}
  IN IF ks = {} THEN 0 ELSE SetMin(ks)

\* the elements the scorer may select: matched by some content selector,
\* visible, more than 200 characters of trimmed text
Candidates(t) ==
  {n \in DOMAIN t :
     /\ FirstSelector(t, n) # 0
     /\ isVisible(t[n])
     /\ Len(Trim(textContent(t, n))) > 200}

\* a is visited before b by the loops over selectors and their matches
VisitedBefore(t, a, b) ==
  \/ FirstSelector(t, a) < FirstSelector(t, b)
  \/ FirstSelector(t, a) = FirstSelector(t, b) /\ a < b

\* the scoring loop ran to its end
Scored == Ran("score") /\ error # "TypeError"

ClusterQualifies(t) ==
  Cardinality({n \in DOMAIN t :
                 /\ t[n].tag = "p"
                 /\ isVisible(t[n])
                 /\ Len(Trim(textContent(t, n))) > 40}) >= 4

\* some visible div, section or main with at least 3 children and more than
\* 500 characters
BlockQualifies(t) ==
  \E n \in DOMAIN t :
    /\ t[n].tag \in {"div", "section", "main"}
    /\ isVisible(t[n])
    /\ Cardinality(Children(t, n)) >= 3
    /\ Len(Trim(textContent(t, n))) > 500

\* the blocks executed are, in this order, a prefix of the given sequence
StagesWithin(order) ==
  /\ Len(stages) <= Len(order)
  /\ \A i \in 1..Len(stages) : stages[i] = order[i]

\* C7: the fallback stages run only when scoring selected nothing, in the
\* order paragraphs, text block, body; the first that succeeds returns.
C7_FallbackOrder ==
  /\ (Ran("paragraphs") \/ Ran("block") \/ Ran("body")) =>
       Scored /\ bestElement = 0 /\ Candidates(WorkingTree) = {}
  /\ method = "selector" => ~(Ran("paragraphs") \/ Ran("block") \/ Ran("body"))
  /\ (Scored /\ bestElement = 0 /\ pc # "paragraphs") => Ran("paragraphs")
  /\ Ran("paragraphs") =>
       IF ClusterQualifies(WorkingTree)
       THEN /\ method = "paragraphs"
            /\ StagesWithin(<<"isHomePage", "strip", "title", "score",
                              "paragraphs", "cleanup", "result">>)
       ELSE /\ method # "paragraphs"
            /\ pc # "block" => Ran("block")
  /\ Ran("block") =>
       /\ ~ClusterQualifies(WorkingTree)
       /\ IF BlockQualifies(WorkingTree)
          THEN /\ method = "block"
               /\ StagesWithin(<<"isHomePage", "strip", "title", "score",
                                 "paragraphs", "block", "cleanup", "result">>)
          ELSE /\ method # "block"
               /\ pc # "body" => Ran("body")
  /\ Ran("body") =>
       /\ ~ClusterQualifies(WorkingTree) /\ ~BlockQualifies(WorkingTree)
       /\ method = "body"
       /\ StagesWithin(<<"isHomePage", "strip", "title", "score", "paragraphs",
                         "block", "body", "cleanup", "result">>)

\* the text block was returned on a page that has paragraphs, too few for
\* the paragraph stage
C7_Witness ==
  /\ method = "block"
  /\ Len(paragraphs(WorkingTree)) > 0
  /\ pc = "cleanup"

\* the number of elements that are a heading or headline inside a link, or a
\* link inside a heading or headline
HeadlinePatterns(t) ==
  LET inside(n, IsOuter(_)) == \E a \in Ancestors(t, n) : IsOuter(t[a])
      isLink(e) == e.tag = "a"
      isHeading(e) == e.tag \in {"h2", "h3"} \/ "headline" \in e.cls
      isLinkHolder(e) == e.tag \in {"h2", "h3"} \/ "headline" \in e.cls
  IN Cardinality({n \in DOMAIN t :
                    \/ isHeading(t[n]) /\ inside(n, isLink)
                    \/ isLink(t[n]) /\ inside(n, isLinkHolder)})

\* the address names a host only: no path
BareHost(u) == \A i \in 1..Len(u) : u[i] # "/"

\* C8, as claimed: isHomePage returns true exactly if the address ends with
\* "/" or is a bare top-level domain, or more than 5 heading-and-link
\* patterns match.
C8_RootLikeOrSixLinks ==
  pc # "start" =>
    (homePage <=> \/ EndsWith(url, <<"/">>)
                  \/ BareHost(url)
                  \/ HeadlinePatterns(trees.orig) > 5)

\* the endings line 44 tests
ListingEndings ==
  {<<"/">>, <<".", "c", "o", "m">>, <<".", "o", "r", "g">>, <<".", "n", "e", "t">>}

\* C8, amended: isHomePage returns true exactly if the address ends with "/",
\* ".com", ".org" or ".net", or more than 5 heading-and-link patterns match;
\* with another address 5 matches give an article page and 6 a listing.
C8_EndingOrSixLinks ==
  pc # "start" =>
    /\ homePage <=> \/ \E e \in ListingEndings : EndsWith(url, e)
                    \/ HeadlinePatterns(trees.orig) > 5
    /\ (url = ArticleURL /\ HeadlinePatterns(trees.orig) = 5) => ~homePage
    /\ (url = ArticleURL /\ HeadlinePatterns(trees.orig) = 6) => homePage

\* a page with exactly 5 patterns at an article address was classified as an
\* article page
C8_Witness ==
  /\ pc # "start"
  /\ url = ArticleURL
  /\ HeadlinePatterns(trees.orig) = 5
  /\ ~homePage

\* C9: the selected element is visible and has more than 200 characters of
\* trimmed text; an element of exactly 200 characters or an invisible one is
\* never selected, and without a candidate above the floor the scorer selects
\* nothing.
C9_CandidateFloor ==
  Ran("score") =>
    LET t == WorkingTree
    IN /\ bestElement # 0 =>
            /\ isVisible(t[bestElement])
            /\ Len(Trim(textContent(t, bestElement))) > 200
       /\ (\A n \in DOMAIN t :
             FirstSelector(t, n) # 0 =>
               ~isVisible(t[n]) \/ Len(Trim(textContent(t, n))) <= 200)
            => /\ bestElement = 0
               /\ error # "TypeError"
               /\ method # "selector"

\* the scorer selected nothing on a page whose only matches are a visible
\* element of exactly 200 characters or an invisible element of 300
C9_Witness ==
  /\ Ran("score")
  /\ bestElement = 0
  /\ \E n \in DOMAIN WorkingTree :
       /\ FirstSelector(WorkingTree, n) # 0
       /\ isVisible(WorkingTree[n])
       /\ Len(Trim(textContent(WorkingTree, n))) = 200

\* the texts of the qualifying paragraphs, in document order
QualifyingParagraphTexts(t) ==
  LET ps == SortedSeq({n \in DOMAIN t :
                         /\ t[n].tag = "p"
                         /\ isVisible(t[n])
                         /\ Len(Trim(textContent(t, n))) > 40})
  IN [k \in 1..Len(ps) |-> textContent(t, ps[k])]

\* the page of scenario C: 5 paragraphs of 50 characters, no content selector
\* matches
ScenarioC == BuildDocument(<<"paras5x50">>)

\* C10: the paragraph stage succeeds exactly if at least 4 visible paragraphs
\* have more than 40 characters, and then returns their texts in document
\* order joined by a blank line; on the page of scenario C the result is an
\* article whose content is that text, cleaned.
C10_ParagraphCluster ==
  /\ (Ran("paragraphs") /\ pc # "paragraphs") =>
       /\ method = "paragraphs" <=> ClusterQualifies(WorkingTree)
       /\ (method = "paragraphs" /\ pc = "cleanup") =>
            content = Join(QualifyingParagraphTexts(WorkingTree), <<"\n", "\n">>)
  /\ (Ended /\ ~homePage /\ trees.orig = ScenarioC /\ isVisible(WorkingTree[1])) =>
       /\ result.type = "article"
       /\ result.content =
            CleanUp(Join(QualifyingParagraphTexts(trees.orig), <<"\n", "\n">>))

\* C10, the paragraph stage alone (holds of getMainContent)
C10_StageOnly ==
  (Ran("paragraphs") /\ pc # "paragraphs") =>
    /\ method = "paragraphs" <=> ClusterQualifies(WorkingTree)
    /\ (method = "paragraphs" /\ pc = "cleanup") =>
         content = Join(QualifyingParagraphTexts(WorkingTree), <<"\n", "\n">>)

\* the visible div, section and main elements with at least 3 child elements
\* and more than 500 characters of text
QualifyingBlocks(t) ==
  {n \in DOMAIN t :
     /\ t[n].tag \in {"div", "section", "main"}
     /\ isVisible(t[n])
     /\ Cardinality(Children(t, n)) >= 3
     /\ Len(Trim(textContent(t, n))) > 500}

\* text length times text-to-markup ratio, as a fraction
BlockScore(t, n) ==
  LET length == Len(Trim(textContent(t, n)))
      markup == Len(Trim(innerHTML(t, n)))
  IN <<length * length, markup>>

\* the qualifying blocks no other qualifying block beats: none scores higher,
\* and none of equal score comes earlier in the document
TopBlocks(t) ==
  {n \in QualifyingBlocks(t) :
     \A m \in QualifyingBlocks(t) :
       /\ ~FracGreater(BlockScore(t, m), BlockScore(t, n))
       /\ FracEqual(BlockScore(t, m), BlockScore(t, n)) => n <= m}

\* C11: the text-block stage considers exactly the visible div, section and
\* main elements with more than 2 child elements and more than 500 characters
\* of text; it returns the text of the one with the highest score, the first
\* encountered on ties, and yields nothing if no element qualifies.
C11_BestTextBlock ==
  (Ran("block") /\ pc # "block") =>
    /\ method = "block" <=> QualifyingBlocks(WorkingTree) # {}
    /\ (method = "block" /\ pc = "cleanup") =>
         /\ Cardinality(TopBlocks(WorkingTree)) = 1
         /\ \A n \in TopBlocks(WorkingTree) :
              content = Trim(textContent(WorkingTree, n))

\* the stage returned the first of two blocks of equal score
C11_Witness ==
  /\ method = "block"
  /\ pc = "cleanup"
  /\ \E n, m \in QualifyingBlocks(WorkingTree) :
       /\ n < m
       /\ FracEqual(BlockScore(WorkingTree, n), BlockScore(WorkingTree, m))
       /\ content = Trim(textContent(WorkingTree, n))
       /\ content # Trim(textContent(WorkingTree, m))

\* some visible element matches a featured-article selector and contains both
\* a heading and a link
UsableFeatured(t) ==
  \E n \in DOMAIN t :
    /\ \E k \in 1..Len(featuredArticleSelectors) :
         Matches(t, n, featuredArticleSelectors[k])
    /\ isVisible(t[n])
    /\ querySelector(t, n, featuredTitleSelectors) # 0
    /\ querySelector(t, n, <<Tag("a")>>) # 0

\* C12: every listing result has the three fields title, link and
\* description; when no featured-article selector yields a usable match the
\* title and the link are empty strings and the description is the generic
\* message.
C12_ListingFields ==
  (pc = "done" /\ result.type = "homepage") =>
    /\ {"title", "link", "description"} \subseteq DOMAIN result
    /\ ~UsableFeatured(trees.orig) =>
         /\ result.title = <<>>
         /\ result.link = ""
         /\ result.description = GenericDescription

\* C13: for every input, the cleaned text contains no "Advertisement" in any
\* letter case, no run of two or more white-space characters, and no leading
\* or trailing white space.
C13_CleanOutput ==
  pass = 2 =>
    /\ \A i \in 1..Len(firstPass) : ~AdMatchAt(firstPass, i)
    /\ \A i \in 1..(Len(firstPass) - 1) :
         ~(IsWs(firstPass[i]) /\ IsWs(firstPass[i + 1]))
    /\ firstPass # <<>> =>
         ~IsWs(firstPass[1]) /\ ~IsWs(firstPass[Len(firstPass)])

\* the fallback chain ran and getMainContent has returned
ChainReturned ==
  /\ Scored
  /\ bestElement = 0
  /\ pc \in {"cleanup", "result", "done", "threw"}

\* C14: when scoring selects nothing the fallback chain always returns a
\* string, the body's full text if neither the paragraphs nor a text block
\* qualify; for a non-listing document without any text the result is an
\* article whose content is the empty string.
C14_AlwaysAString ==
  /\ ChainReturned => method \in {"paragraphs", "block", "body"}
  /\ (ChainReturned /\ ~ClusterQualifies(WorkingTree)
        /\ ~BlockQualifies(WorkingTree)) =>
       /\ method = "body"
       /\ pc = "cleanup" => content = textContent(WorkingTree, 0)
  /\ (Ended /\ ~homePage /\ textContent(trees.orig, 0) = <<>>) =>
       /\ result.type = "article"
       /\ result.content = <<>>

\* C14, the fallback chain alone (holds of getMainContent)
C14_ChainOnly ==
  /\ ChainReturned => method \in {"paragraphs", "block", "body"}
  /\ (ChainReturned /\ ~ClusterQualifies(WorkingTree)
        /\ ~BlockQualifies(WorkingTree)) =>
       /\ method = "body"
       /\ pc = "cleanup" => content = textContent(WorkingTree, 0)

\* the visible matches of the k-th title selector, in document order
VisibleTitleMatches(t, k) ==
  SelectSeq(querySelectorAll(t, 0, <<titleSelectors[k]>>),
            LAMBDA n : isVisible(t[n]))

\* the text of the first visible match of the first title selector that has
\* a visible match; the empty string if no selector has one
FirstVisibleTitle(t) ==
  LET found == {k \in 1..Len(titleSelectors) : VisibleTitleMatches(t, k) # <<>>}
  IN IF found = {} THEN <<>>
     ELSE Trim(textContent(t, VisibleTitleMatches(t, SetMin(found))[1]))

\* C15: the located title is the text of the first visible element matching
\* the first title selector that has any visible match, also when an
\* invisible match of that selector comes first in the document.
C15_FirstVisibleTitle ==
  Ran("title") => articleTitle = FirstVisibleTitle(WorkingTree)

\* an element with a layout box that contains a heading and a link
IsUsableFeatured(t, n) ==
  /\ isVisible(t[n])
  /\ querySelector(t, n, featuredTitleSelectors) # 0
  /\ querySelector(t, n, <<Tag("a")>>) # 0

\* the usable matches of the k-th featured-article selector, in document order
UsableFeaturedMatches(t, k) ==
  SelectSeq(querySelectorAll(t, 0, <<featuredArticleSelectors[k]>>),
            LAMBDA n : IsUsableFeatured(t, n))

\* the first usable element in featured-article selector order, 0 if none
FirstUsableFeatured(t) ==
  LET found == {k \in 1..Len(featuredArticleSelectors) :
                  UsableFeaturedMatches(t, k) # <<>>}
  IN IF found = {} THEN 0 ELSE UsableFeaturedMatches(t, SetMin(found))[1]

\* C16: the listing result is built from the first visible element, in
\* featured-article selector order, that contains a heading and a link: title
\* the heading's trimmed text, link the link's target, description embedding
\* the title; an invisible or incomplete match never keeps a later usable
\* match of the same or a later selector from being used.
C16_FirstUsableFeatured ==
  (pc = "done" /\ result.type = "homepage"
     /\ FirstUsableFeatured(trees.orig) # 0) =>
    LET n == FirstUsableFeatured(trees.orig)
        title == Trim(textContent(trees.orig,
                        querySelector(trees.orig, n, featuredTitleSelectors)))
    IN /\ "title" \in DOMAIN result
       /\ result.title = title
       /\ result.link = trees.orig[querySelector(trees.orig, n, <<Tag("a")>>)].href
       /\ result.description = FeaturedDescription \o title

\* element n of tree t matches a non-content selector
IsNoise(t, n) ==
  \E k \in 1..Len(nonContentSelectors) : Matches(t, n, nonContentSelectors[k])

\* the elements of t that neither match a non-content selector nor lie under
\* an element that matches one
OutsideNoise(t) ==
  {n \in DOMAIN t : \A a \in {n} \cup Ancestors(t, n) : ~IsNoise(t, a)}

\* the number of times the block named x has been executed
TimesRan(x) == Cardinality({i \in 1..Len(stages) : stages[i] = x})

C18_ResultTitle ==
  (Ended /\ ~homePage) =>
    /\ result.type = "article"
    /\ result.title = articleTitle

\* some click happened and every handler has returned
AllReturned ==
  /\ clicks >= 1
  /\ \A h \in 1..clicks : handler[h] \in {"displayed", "failed"}

\* C19: once all handlers of a sequence of possibly overlapping clicks have
\* finished, the summary container and the error container are not both
\* visible, and the visible one shows the outcome of the click started last.
C19_LastClickShown ==
  AllReturned =>
    /\ {"summaryContainer", "errorContainer"} \cap hidden # {}
    /\ handler[clicks] = "displayed" =>
         /\ "summaryContainer" \notin hidden
         /\ summaryText = message[clicks]
    /\ handler[clicks] = "failed" =>
         /\ "errorContainer" \notin hidden
         /\ errorMessage = message[clicks]

\* C20: the loading indicator is visible whenever some handler has started
\* and not finished, and hidden once no handler is in flight, however the
\* handlers ended and also when clicks overlap.
C20_LoadingWhileInFlight ==
  /\ (\E h \in 1..MaxClicks : InFlight(h)) => "loadingElement" \notin hidden
  /\ AllReturned => "loadingElement" \in hidden

\* an 'Error generating summary' string
IsErrorString(value) == Len(value) >= 1 /\ value[1] = ErrorPrefix[1]

\* generateSummary is not suspended at an await and has been called
Returned == summaryPc \notin {"idle", "start", "storage.get", "fetch", "errorData",
                              "response.json"}

\* what is sent for a content: the content itself up to 4000 characters, its
\* first 4000 characters followed by '...' beyond that
SentFor(c) ==
  IF Len(c) <= 4000 THEN c
  ELSE [i \in 1..4003 |-> IF i <= 4000 THEN c[i] ELSE "."]

====
